---- MODULE Spec2Model ----
(***************************************************************************)
(* A model of github_wrapped.py: one run of main() against the hosting     *)
(* platform.  Every HTTP request is one step; the platform's answer (its   *)
(* status and body) is the step's nondeterministic input.  The variable    *)
(* trace is the history of requests and pacing pauses in the order the     *)
(* process issued them, console is what has been printed.                  *)
(***************************************************************************)
EXTENDS Integers, Sequences, FiniteSets, TLC

\* ---------------------------------------------------------------- bounds

\* Repositories the platform serves in one run of the whole pipeline.
MaxRepos == 3
\* Repositories handed to language aggregation in SpecLang.
MaxLangRepos == 3
\* Repositories handed to the report in SpecDisplay.
MaxTopRepos == 7
\* Largest star count of a repository in SpecDisplay.
MaxStars == 2

\* ------------------------------------------------------ program constants

\* params={"per_page": 100, ...}
PerPage == 100
\* sorted(...)[:5]
TopRepoCount == 5
\* list(languages.items())[:6]
TopLangCount == 6

\* ------------------------------------------------------------ the values

\* Python's None and a present value: "absent" is never a number.
None == <<>>
Some(x) == <<x>>

\* The statuses the platform answers with: success and a refusal.
Statuses == {200, 403}

\* The year as typed, after strip(): a sequence of ASCII characters (too
\* short, not a number, empty, too long, and one that passes).
Years ==
    { <<"2", "0", "2", "4">>, <<"2", "4">>, <<"2", "0", "2", "x">>, <<>>,
      <<"2", "0", "2", "4", "0">> }

ValidYear == <<"2", "0", "2", "4">>

Digits == {"0", "1", "2", "3", "4", "5", "6", "7", "8", "9"}

\* str.isdigit(): non-empty and every character a digit.
isdigit(s) == Len(s) > 0 /\ \A i \in 1..Len(s) : s[i] \in Digits

DigitValue(c) ==
    CASE c = "0" -> 0 [] c = "1" -> 1 [] c = "2" -> 2 [] c = "3" -> 3
      [] c = "4" -> 4 [] c = "5" -> 5 [] c = "6" -> 6 [] c = "7" -> 7
      [] c = "8" -> 8 [] c = "9" -> 9

\* int(year) for a string of digits.
RECURSIVE int(_)
int(s) ==
    IF s = <<>> THEN 0
    ELSE 10 * int(SubSeq(s, 1, Len(s) - 1)) + DigitValue(s[Len(s)])

\* The profile bodies of the identity endpoint: name may be null.
UserBodies ==
    { [login |-> "octocat", name |-> None],
      [login |-> "octocat", name |-> Some("Mona")] }

Langs == {"Python", "Go"}

\* The byte counts one response reports for a language: sums over three
\* repositories range over 0..3, with ties and with a tally of zero bytes.
ByteCounts == {0, 1}

\* All sequences over S of length at most n.
SeqsUpTo(S, n) == UNION { [1..m -> S] : m \in 0..n }

\* A JSON object of language byte counts, in the order its keys arrive.
LangBodiesOver(counts) ==
    { b \in SeqsUpTo([lang : Langs, count : counts], Cardinality(Langs)) :
        \A i, j \in 1..Len(b) : i # j => b[i].lang # b[j].lang }

\* A response: the status and, on success, the body.
Responses(bodies) ==
    { [status |-> 200, body |-> b] : b \in bodies }
      \cup { [status |-> s, body |-> None] : s \in Statuses \ {200} }

UserResponses == Responses(UserBodies)

\* The search endpoints' bodies: total_count, or a body without the key.
SearchResponses == Responses({ None, Some(0), Some(7) })

\* Language responses of the whole run (Spec): one body, or a refusal.
PipelineLangResponses == Responses({ << [lang |-> "Python", count |-> 1] >> })

\* Language responses of language aggregation on its own (SpecLang).
LangResponses == Responses(LangBodiesOver(ByteCounts))

\* Star counts of the repositories the whole run (Spec) is served.
PipelineStars == {0, 1}

\* A page of the repository listing: the repositories are named by their
\* position in the whole collection, so names are unique within the account.
RepoPages(first, maxLen, forks, stars) ==
    { [i \in 1..Len(k) |->
          [name |-> first + i - 1, fork |-> k[i].fork,
           stargazers_count |-> k[i].stargazers_count]] :
        k \in SeqsUpTo([fork : forks, stargazers_count : stars], maxLen) }

\* ------------------------------------------------------------- the state

VARIABLES
    pc,            \* where main() is
    year,          \* the validated year string
    user,          \* the profile get_user_info returned
    repos,         \* get_all_repos: the repositories collected so far
    page,          \* get_all_repos: the page to request next
    commit_count,  \* None or Some(n)
    pr_count,      \* None or Some(n)
    lang_bytes,    \* get_languages: the tally, in insertion order
    idx,           \* get_languages: position of the for loop in repos
    languages,     \* what get_languages returned
    console,       \* the sections printed, in order
    trace,         \* the requests and pauses issued, in order
    error,         \* "none", or what ended the run
    exit_code      \* None while running, Some(code) after

vars ==
    << pc, year, user, repos, page, commit_count, pr_count, lang_bytes, idx,
       languages, console, trace, error, exit_code >>

\* One entry of trace.
Request(endpoint, arg, per_page, resp) ==
    [endpoint |-> endpoint, arg |-> arg, per_page |-> per_page,
     status |-> resp.status, body |-> resp.body]

\* time.sleep(0.05)
Sleep == [endpoint |-> "sleep", arg |-> 0, per_page |-> 0, status |-> 0,
          body |-> None]

\* A raise_for_status that lets every status through.
raise_for_status_never(status) == FALSE

\* Response.raise_for_status(): raises HTTPError for a 4xx or 5xx status.
raise_for_status(status) == 400 <= status /\ status < 600

\* ------------------------------------------------------- pure functions

\* A search helper that answers 0 when the search is refused.
search_result_zero(resp) ==
    IF resp.status = 200
    THEN Some(IF resp.body = None THEN 0 ELSE resp.body[1])
    ELSE Some(0)

\* The search helpers' result: r.json().get("total_count", 0) on status 200,
\* None on any other status.
search_result(resp) ==
    IF resp.status = 200
    THEN Some(IF resp.body = None THEN 0 ELSE resp.body[1])
    ELSE None

\* lang_bytes[lang] = count: the last repository's count replaces the sum.
add_language_overwrite(tally, item) ==
    IF \E i \in 1..Len(tally) : tally[i].lang = item.lang
    THEN [i \in 1..Len(tally) |->
            IF tally[i].lang = item.lang
            THEN [lang |-> item.lang, count |-> item.count]
            ELSE tally[i]]
    ELSE Append(tally, [lang |-> item.lang, count |-> item.count])

\* lang_bytes[lang] += count on a defaultdict(int): an absent language is
\* created at zero, at the end of the insertion order, and then added to.
add_language(tally, item) ==
    IF \E i \in 1..Len(tally) : tally[i].lang = item.lang
    THEN [i \in 1..Len(tally) |->
            IF tally[i].lang = item.lang
            THEN [lang |-> item.lang, count |-> tally[i].count + item.count]
            ELSE tally[i]]
    ELSE Append(tally, [lang |-> item.lang, count |-> 0 + item.count])

\* for lang, count in r.json().items(): lang_bytes[lang] += count
RECURSIVE add_languages(_, _)
add_languages(tally, body) ==
    IF body = <<>> THEN tally
    ELSE add_languages(add_language(tally, Head(body)), Tail(body))

\* The elements of a sequence.
Range(s) == { s[i] : i \in 1..Len(s) }

\* A step of an unstable descending sort: x goes before its equals.
insert_reverse_unstable(sorted, x, key) ==
    LET p == Cardinality({ i \in 1..Len(sorted) : key[sorted[i]] > key[x] })
    IN  SubSeq(sorted, 1, p) \o <<x>> \o SubSeq(sorted, p + 1, Len(sorted))

\* One step of a stable descending sort: x goes after every element whose
\* key is at least its own.  key maps each element to its sort key.
insert_reverse(sorted, x, key) ==
    LET p == Cardinality({ i \in 1..Len(sorted) : key[sorted[i]] >= key[x] })
    IN  SubSeq(sorted, 1, p) \o <<x>> \o SubSeq(sorted, p + 1, Len(sorted))

\* sorted(s, key=key, reverse=True): descending, and stable (elements with
\* equal keys keep the order they had in s).
RECURSIVE sorted_reverse(_, _)
sorted_reverse(s, key) ==
    IF s = <<>> THEN <<>>
    ELSE insert_reverse(sorted_reverse(SubSeq(s, 1, Len(s) - 1), key),
                        s[Len(s)], key)

\* dict(sorted(lang_bytes.items(), key=lambda x: x[1], reverse=True))
sort_languages(tally) ==
    sorted_reverse(tally, [x \in Range(tally) |-> x.count])

\* s[:n]
Slice(s, n) == SubSeq(s, 1, IF Len(s) < n THEN Len(s) ELSE n)

\* sorted(repos[:5], ...): the slice taken before the sort.
top_repos_slice_first(rs) ==
    sorted_reverse(Slice(rs, TopRepoCount),
                   [r \in Range(rs) |-> r.stargazers_count])

\* sorted(repos, key=lambda r: r["stargazers_count"], reverse=True)[:5]
top_repos(rs) ==
    Slice(sorted_reverse(rs, [r \in Range(rs) |-> r.stargazers_count]),
          TopRepoCount)

\* sum(r["stargazers_count"] for r in repos if not r["fork"])
RECURSIVE total_stars_own(_)
total_stars_own(rs) ==
    IF rs = <<>> THEN 0
    ELSE (IF Head(rs).fork THEN 0 ELSE Head(rs).stargazers_count)
           + total_stars_own(Tail(rs))

\* sum(r["stargazers_count"] for r in repos)
RECURSIVE total_stars(_)
total_stars(rs) ==
    IF rs = <<>> THEN 0
    ELSE Head(rs).stargazers_count + total_stars(Tail(rs))

\* sum(languages.values())
RECURSIVE total_bytes(_)
total_bytes(tally) ==
    IF tally = <<>> THEN 0 ELSE Head(tally).count + total_bytes(Tail(tally))

\* list(languages.keys())[-1] if languages else "code"
top_lang_last(tally) == IF tally # <<>> THEN tally[Len(tally)].lang ELSE "code"

\* list(languages.keys())[0] if languages else "code"
top_lang(tally) == IF tally # <<>> THEN tally[1].lang ELSE "code"

\* user.get("name") or user.get("login")
display_name(u) ==
    IF u.name # None /\ u.name[1] # "" THEN u.name[1] ELSE u.login

commit_flavor(n) ==
    IF n > 1000 THEN "lived in the terminal"
    ELSE IF n > 300 THEN "solid year" ELSE "quality over quantity"

pr_flavor(n) ==
    IF n > 200 THEN "reviewing machine"
    ELSE IF n > 50 THEN "great collaborator" ELSE "thoughtful contributor"

\* ------------------------------------------------------------ operations

\* main(), lines 197-205: the year is checked before any request.
main_input ==
    /\ pc = "input"
    /\ \E y \in Years :
        IF ~isdigit(y) \/ Len(y) # 4
        THEN /\ console' = << [section |-> "error", text |-> "invalid year"] >>
             /\ pc' = "exit"
             /\ error' = "invalid_year"
             /\ exit_code' = Some(1)
             /\ year' = year
        ELSE /\ year' = y
             /\ pc' = "auth"
             /\ UNCHANGED << console, error, exit_code >>
    /\ UNCHANGED << user, repos, page, commit_count, pr_count, lang_bytes,
                    idx, languages, trace >>

\* get_user_info and main's handler around it: an HTTPError ends the run
\* with exit code 1.
get_user_info ==
    /\ pc = "auth"
    /\ \E resp \in UserResponses :
        /\ trace' = Append(trace, Request("user", 0, 0, resp))
        /\ IF raise_for_status(resp.status)
           THEN /\ console' =
                      << [section |-> "error", text |-> "could not authenticate"] >>
                /\ pc' = "exit"
                /\ error' = "auth"
                /\ exit_code' = Some(1)
                /\ user' = user
           ELSE /\ user' = resp.body
                /\ pc' = "repos"
                /\ UNCHANGED << console, error, exit_code >>
    /\ UNCHANGED << year, repos, page, commit_count, pr_count, lang_bytes,
                    idx, languages >>

\* The page number left as it is.
next_page_same(p) == p

\* page += 1
next_page(p) == p + 1

\* One iteration of get_all_repos' loop.  The platform serves a page of at
\* most maxLen further repositories; an HTTPError is not caught by main.
get_all_repos(maxLen, stars) ==
    /\ pc = "repos"
    /\ \E resp \in Responses(RepoPages(Len(repos) + 1, maxLen, BOOLEAN, stars)) :
        /\ trace' = Append(trace, Request("repos", page, PerPage, resp))
        /\ IF raise_for_status(resp.status)
           THEN /\ pc' = "exit"
                /\ error' = "HTTPError"
                /\ exit_code' = Some(1)
                /\ UNCHANGED << repos, page >>
           ELSE IF resp.body = <<>>
           THEN /\ pc' = "commits"
                /\ UNCHANGED << repos, page, error, exit_code >>
           ELSE /\ repos' = repos \o resp.body
                /\ page' = next_page(page)
                /\ UNCHANGED << pc, error, exit_code >>
    /\ UNCHANGED << year, user, commit_count, pr_count, lang_bytes, idx,
                    languages, console >>

get_commit_count ==
    /\ pc = "commits"
    /\ \E resp \in SearchResponses :
        /\ trace' = Append(trace, Request("commits", 0, 1, resp))
        /\ commit_count' = search_result(resp)
    /\ pc' = "prs"
    /\ UNCHANGED << year, user, repos, page, pr_count, lang_bytes, idx,
                    languages, console, error, exit_code >>

get_pr_count ==
    /\ pc = "prs"
    /\ \E resp \in SearchResponses :
        /\ trace' = Append(trace, Request("prs", 0, 1, resp))
        /\ pr_count' = search_result(resp)
    /\ pc' = "langs"
    /\ UNCHANGED << year, user, repos, page, commit_count, lang_bytes, idx,
                    languages, console, error, exit_code >>

\* A loop that asks a second time when it is refused.
language_request_retry(repo, resp) ==
    IF resp.status = 200
    THEN << Request("languages", repo.name, 0, resp), Sleep >>
    ELSE << Request("languages", repo.name, 0, resp),
            Request("languages", repo.name, 0, resp), Sleep >>

\* What one iteration of get_languages' loop does to the outside for a
\* repository that is no fork: the request, then the pause, whatever the
\* status.
language_request(repo, resp) ==
    << Request("languages", repo.name, 0, resp), Sleep >>

\* One iteration of get_languages' loop: a fork is skipped without a
\* request; any other repository costs one request and one pause.
get_languages(responses) ==
    /\ pc = "langs"
    /\ idx <= Len(repos)
    /\ IF repos[idx].fork
       THEN UNCHANGED << lang_bytes, trace >>
       ELSE \E resp \in responses :
            /\ lang_bytes' =
                 IF resp.status = 200
                 THEN add_languages(lang_bytes, resp.body)
                 ELSE lang_bytes
            /\ trace' = trace \o language_request(repos[idx], resp)
    /\ idx' = idx + 1
    /\ UNCHANGED << pc, year, user, repos, page, commit_count, pr_count,
                    languages, console, error, exit_code >>

\* The end of get_languages' loop: the tally is sorted and returned.
get_languages_return ==
    /\ pc = "langs"
    /\ idx > Len(repos)
    /\ languages' = sort_languages(lang_bytes)
    /\ pc' = "display"
    /\ UNCHANGED << year, user, repos, page, commit_count, pr_count,
                    lang_bytes, idx, console, trace, error, exit_code >>

\* display_wrapped, and main's return after it.  The percentage of the
\* languages panel divides by the tally's total: a non-empty tally of zero
\* bytes raises ZeroDivisionError after the stars panel is printed.
display_wrapped ==
    /\ pc = "display"
    /\ LET head ==
               << [section |-> "title", year |-> year],
                  [section |-> "greeting", name |-> display_name(user)] >>
           commits ==
               IF commit_count # None
               THEN << [section |-> "commits", count |-> commit_count[1],
                        flavor |-> commit_flavor(commit_count[1])] >>
               ELSE <<>>
           prs ==
               IF pr_count # None
               THEN << [section |-> "prs", count |-> pr_count[1],
                        flavor |-> pr_flavor(pr_count[1])] >>
               ELSE <<>>
           stars ==
               << [section |-> "stars", total_stars |-> total_stars(repos),
                   top_repos |-> top_repos(repos)] >>
           langs ==
               IF languages # <<>>
               THEN << [section |-> "languages",
                        top_langs |-> Slice(languages, TopLangCount)] >>
               ELSE <<>>
           signoff ==
               << [section |-> "signoff", top_lang |-> top_lang(languages),
                   next_year |-> int(year) + 1] >>
       IN  IF languages # <<>> /\ total_bytes(languages) = 0
           THEN /\ console' = head \o commits \o prs \o stars
                /\ pc' = "exit"
                /\ error' = "ZeroDivisionError"
                /\ exit_code' = Some(1)
           ELSE /\ console' = head \o commits \o prs \o stars \o langs \o signoff
                /\ pc' = "done"
                /\ error' = error
                /\ exit_code' = Some(0)
    /\ UNCHANGED << year, user, repos, page, commit_count, pr_count,
                    lang_bytes, idx, languages, trace >>

\* ------------------------------------------------- the whole run: main()

Init ==
    /\ pc = "input"
    /\ year = <<>>
    /\ user = None
    /\ repos = <<>>
    /\ page = 1
    /\ commit_count = None
    /\ pr_count = None
    /\ lang_bytes = <<>>
    /\ idx = 1
    /\ languages = <<>>
    /\ console = <<>>
    /\ trace = <<>>
    /\ error = "none"
    /\ exit_code = None

Next ==
    \/ main_input
    \/ get_user_info
    \/ get_all_repos(MaxRepos - Len(repos), PipelineStars)
    \/ get_commit_count
    \/ get_pr_count
    \/ get_languages(PipelineLangResponses)
    \/ get_languages_return
    \/ display_wrapped

Spec == Init /\ [][Next]_vars

\* -------------------------------- language aggregation on its own

\* What main() has issued when get_languages is called on rs: the identity
\* lookup, the listing (rs in one page, then the empty page) and the two
\* searches, here both refused.
HistoryBeforeLanguages(rs) ==
    << Request("user", 0, 0, [status |-> 200, body |-> CHOOSE u \in UserBodies : u.name = None]) >>
      \o (IF rs = <<>> THEN <<>>
          ELSE << Request("repos", 1, PerPage, [status |-> 200, body |-> rs]) >>)
      \o << Request("repos", IF rs = <<>> THEN 1 ELSE 2, PerPage,
                    [status |-> 200, body |-> <<>>]),
            Request("commits", 0, 1, [status |-> 403, body |-> None]),
            Request("prs", 0, 1, [status |-> 403, body |-> None]) >>

\* The state main() is in when it calls get_languages(username, rs, headers).
AtLanguages(rs) ==
    /\ pc = "langs"
    /\ year = ValidYear
    /\ user = CHOOSE u \in UserBodies : u.name = None
    /\ repos = rs
    /\ page = IF rs = <<>> THEN 1 ELSE 2
    /\ commit_count = None
    /\ pr_count = None
    /\ lang_bytes = <<>>
    /\ idx = 1
    /\ languages = <<>>
    /\ console = <<>>
    /\ trace = HistoryBeforeLanguages(rs)
    /\ error = "none"
    /\ exit_code = None

InitLang ==
    \E rs \in RepoPages(1, MaxLangRepos, BOOLEAN, {0}) : AtLanguages(rs)

NextLang ==
    \/ get_languages(LangResponses)
    \/ get_languages_return
    \/ display_wrapped

SpecLang == InitLang /\ [][NextLang]_vars

\* ------------------------------------------------- the report on its own

\* The language requests of a run in which every one was refused.
RECURSIVE RefusedLanguages(_)
RefusedLanguages(rs) ==
    IF rs = <<>> THEN <<>>
    ELSE (IF Head(rs).fork THEN <<>>
          ELSE << Request("languages", Head(rs).name, 0,
                          [status |-> 403, body |-> None]), Sleep >>)
           \o RefusedLanguages(Tail(rs))

\* The state main() is in when it calls display_wrapped on rs after every
\* search and language request was refused.
AtDisplay(rs) ==
    /\ pc = "display"
    /\ year = ValidYear
    /\ user = CHOOSE u \in UserBodies : u.name = None
    /\ repos = rs
    /\ page = IF rs = <<>> THEN 1 ELSE 2
    /\ commit_count = None
    /\ pr_count = None
    /\ lang_bytes = <<>>
    /\ idx = Len(rs) + 1
    /\ languages = <<>>
    /\ console = <<>>
    /\ trace = HistoryBeforeLanguages(rs) \o RefusedLanguages(rs)
    /\ error = "none"
    /\ exit_code = None

InitDisplay ==
    \E rs \in RepoPages(1, MaxTopRepos, {FALSE}, 0..MaxStars) : AtDisplay(rs)

NextDisplay == display_wrapped

SpecDisplay == InitDisplay /\ [][NextDisplay]_vars

\* ------------------------------------------------ reading a run's record

\* The requests of trace sent to one endpoint, in order.
Entries(endpoint) == SelectSeq(trace, LAMBDA e : e.endpoint = endpoint)

\* The printed sections of one kind, in order.
Section(name) == SelectSeq(console, LAMBDA c : c.section = name)

\* get_all_repos has returned to main().
ReposReturned ==
    pc \in {"commits", "prs", "langs", "display", "done"}
      \/ error = "ZeroDivisionError"

\* get_languages has returned to main().
LanguagesReturned ==
    pc \in {"display", "done"} \/ error = "ZeroDivisionError"

\* display_wrapped has run, to its end or to the error in its languages panel.
DisplayRan == pc = "done" \/ error = "ZeroDivisionError"

\* The concatenation of the bodies of the first n entries of P.
RECURSIVE ConcatBodies(_, _)
ConcatBodies(P, n) ==
    IF n = 0 THEN <<>> ELSE ConcatBodies(P, n - 1) \o P[n].body

\* ------------------------------------------------------------------ C1

\* C1: the listing is requested as pages 1, 2, 3, ... at page size 100, each
\* request but the last was answered by a non-empty page, and once the
\* collection has returned the last page was the first empty one, the number
\* of requests is the number of non-empty pages plus one, and the result is
\* the concatenation of the non-empty pages in order.
C1_Pagination ==
    LET P == Entries("repos")
        nonEmpty == { i \in 1..Len(P) : P[i].status = 200 /\ P[i].body # <<>> }
    IN  /\ \A i \in 1..Len(P) : P[i].arg = i /\ P[i].per_page = 100
        /\ \A i \in 1..(Len(P) - 1) : i \in nonEmpty
        /\ ReposReturned =>
             /\ Len(P) >= 1
             /\ P[Len(P)].status = 200
             /\ P[Len(P)].body = <<>>
             /\ Len(P) = Cardinality(nonEmpty) + 1
             /\ repos = ConcatBodies(P, Len(P) - 1)

\* Pages of sizes [2, 1, 0]: three requests, three repositories.
C1_Witness ==
    LET P == Entries("repos")
    IN  /\ ReposReturned
        /\ Len(P) = 3
        /\ Len(P[1].body) = 2
        /\ Len(P[2].body) = 1
        /\ Len(repos) = 3

\* ------------------------------------------------------------------ C3

\* C3: a non-success response from the repository-listing, commit-search,
\* PR-search or language endpoint never raises out of the pipeline.
C3_SoftFailure ==
    \A i \in 1..Len(trace) :
        (/\ trace[i].endpoint \in {"repos", "commits", "prs", "languages"}
         /\ trace[i].status # 200)
          => error = "none"

\* ------------------------------------------------------------------ C4

\* The count a search response reports, when it reports one.
Reported(e) == IF e.body = None THEN None ELSE Some(e.body[1])

\* What a count must be after the search whose requests are E.
CountAgrees(count, E) ==
    Len(E) = 1 =>
        /\ E[1].status # 200 => count = None
        /\ E[1].status = 200 => count # None
        /\ (E[1].status = 200 /\ Reported(E[1]) # None) => count = Reported(E[1])

\* What the report must show of a count: its section exactly when the count
\* is present, and then the count itself.
ShownAgrees(count, S) ==
    /\ Len(S) = (IF count = None THEN 0 ELSE 1)
    /\ \A i \in 1..Len(S) : Some(S[i].count) = count

\* C4: each activity count is absent after a non-success status and is the
\* reported total (a genuine 0 included) after a success status, and the
\* report shows the commits (pull-requests) section exactly when the count is
\* present, with the count itself.
C4_AbsentIsNotZero ==
    /\ CountAgrees(commit_count, Entries("commits"))
    /\ CountAgrees(pr_count, Entries("prs"))
    /\ DisplayRan =>
         /\ ShownAgrees(commit_count, Section("commits"))
         /\ ShownAgrees(pr_count, Section("prs"))

\* The commit search reported a genuine 0 and the PR search was refused: the
\* report shows "0 commits" and no pull-requests section.
C4_Witness ==
    /\ pc = "done"
    /\ Entries("commits")[1].status = 200
    /\ Entries("commits")[1].body = Some(0)
    /\ Entries("prs")[1].status = 403
    /\ Len(Section("commits")) = 1
    /\ Section("commits")[1].count = 0
    /\ Len(Section("prs")) = 0

\* ------------------------------------------------------------------ C5

\* C5: after a failed identity lookup the run has ended with a non-zero exit
\* code, the lookup is the only request ever issued, and no section of the
\* report is printed.
C5_AuthFailureIsFatal ==
    \A i \in 1..Len(trace) :
        (trace[i].endpoint = "user" /\ trace[i].status # 200) =>
            /\ pc = "exit"
            /\ exit_code # None
            /\ exit_code[1] # 0
            /\ Len(trace) = 1
            /\ \A j \in 1..Len(console) : console[j].section = "error"

C5_Witness ==
    /\ error = "auth"
    /\ trace[1].endpoint = "user"
    /\ trace[1].status = 403

\* ------------------------------------------------------------------ C2

\* The bytes a tally or a response body gives a language: 0 when it does
\* not name it.
BytesOf(items, l) ==
    IF \E i \in 1..Len(items) : items[i].lang = l
    THEN (items[CHOOSE i \in 1..Len(items) : items[i].lang = l]).count
    ELSE 0

\* The language request the run issued for the repository named n.
LanguageEntryOf(n) ==
    LET E == Entries("languages") IN E[CHOOSE i \in 1..Len(E) : E[i].arg = n]

\* The sum of language l's byte counts over the first n repositories that
\* are no forks and whose language fetch succeeded.
RECURSIVE FetchedBytes(_, _)
FetchedBytes(l, n) ==
    IF n = 0 THEN 0
    ELSE FetchedBytes(l, n - 1)
           + (IF ~repos[n].fork /\ LanguageEntryOf(repos[n].name).status = 200
              THEN BytesOf(LanguageEntryOf(repos[n].name).body, l)
              ELSE 0)

\* The languages some successful fetch of the first n repositories named.
FetchedLangs(n) ==
    { l \in Langs :
        \E i \in 1..n :
            /\ ~repos[i].fork
            /\ LanguageEntryOf(repos[i].name).status = 200
            /\ \E k \in 1..Len(LanguageEntryOf(repos[i].name).body) :
                   LanguageEntryOf(repos[i].name).body[k].lang = l }

\* A tally names each of the languages in L once and nothing else.
Names(tally, L) ==
    /\ { tally[i].lang : i \in 1..Len(tally) } = L
    /\ Len(tally) = Cardinality(L)

\* C2: the tally maps each language to the sum of its byte counts over the
\* non-fork repositories whose fetch returned status 200, all through the
\* aggregation and in what it returns; a fork is never fetched, and a
\* repository whose fetch was refused adds nothing and stops nothing.
C2_TallyIsExactSum ==
    /\ pc = "langs" =>
         /\ Names(lang_bytes, FetchedLangs(idx - 1))
         /\ \A l \in Langs : BytesOf(lang_bytes, l) = FetchedBytes(l, idx - 1)
    /\ LanguagesReturned =>
         /\ Names(languages, FetchedLangs(Len(repos)))
         /\ \A l \in Langs : BytesOf(languages, l) = FetchedBytes(l, Len(repos))
    /\ \A i \in 1..Len(repos) :
         repos[i].fork =>
            \A k \in 1..Len(trace) :
                ~(trace[k].endpoint = "languages" /\ trace[k].arg = repos[i].name)

\* A fork, a repository whose fetch is refused and one whose fetch succeeds
\* after it: the tally is the last one's counts.
C2_Witness ==
    /\ pc = "done"
    /\ Len(repos) = 3
    /\ repos[1].fork /\ ~repos[2].fork /\ ~repos[3].fork
    /\ LanguageEntryOf(repos[2].name).status = 403
    /\ LanguageEntryOf(repos[3].name).status = 200
    /\ languages = << [lang |-> "Go", count |-> 1] >>

\* ------------------------------------------------------------------ C6

\* The languages of the successful fetches, in the order they arrived.
RECURSIVE FetchOrderOf(_)
FetchOrderOf(E) ==
    IF E = <<>> THEN <<>>
    ELSE (IF Head(E).status = 200
          THEN [k \in 1..Len(Head(E).body) |-> Head(E).body[k].lang]
          ELSE <<>>)
           \o FetchOrderOf(Tail(E))

FetchOrder == FetchOrderOf(Entries("languages"))

\* Where a language was first seen.
FirstSeen(l) ==
    CHOOSE i \in 1..Len(FetchOrder) :
        /\ FetchOrder[i] = l
        /\ \A j \in 1..(i - 1) : FetchOrder[j] # l

\* C6: the returned tally is in descending order of byte count, and two
\* languages with equal byte counts are in the order they were first seen.
C6_SortedStable ==
    LanguagesReturned =>
        \A i, j \in 1..Len(languages) :
            i < j =>
                /\ languages[i].count >= languages[j].count
                /\ languages[i].count = languages[j].count =>
                       FirstSeen(languages[i].lang) < FirstSeen(languages[j].lang)

\* Go is seen before Python and both total one byte: Go stays first.
C6_Witness ==
    /\ LanguagesReturned
    /\ languages = << [lang |-> "Go", count |-> 1],
                    [lang |-> "Python", count |-> 1] >>
    /\ FetchOrder = << "Go", "Python", "Go" >>

\* ------------------------------------------------------------------ C9

\* The language the sign-off names, when a sign-off is printed.
SignOffLanguage ==
    IF Len(Section("signoff")) = 0 THEN None
    ELSE Some(Section("signoff")[1].top_lang)

\* l is the language of the highest total, the first seen among the highest.
IsTopFetched(l) ==
    /\ l \in FetchedLangs(Len(repos))
    /\ \A m \in FetchedLangs(Len(repos)) \ {l} :
          \/ FetchedBytes(l, Len(repos)) > FetchedBytes(m, Len(repos))
          \/ /\ FetchedBytes(l, Len(repos)) = FetchedBytes(m, Len(repos))
             /\ FirstSeen(l) < FirstSeen(m)

ShownTopRepos == Section("stars")[1].top_repos

\* Where a repository stands in the collection.
PositionOf(r) == CHOOSE i \in 1..Len(repos) : repos[i] = r

\* r ranks before q: more stars, or as many and collected earlier.
RanksBefore(r, q) ==
    \/ r.stargazers_count > q.stargazers_count
    \/ /\ r.stargazers_count = q.stargazers_count
       /\ PositionOf(r) < PositionOf(q)

\* C7: the report lists min(5, number of repositories) repositories of the
\* collection, by star count descending with ties in collection order, and
\* every listed repository ranks before every one left out.
C7_TopFive ==
    DisplayRan =>
        /\ Len(ShownTopRepos) = (IF Len(repos) < 5 THEN Len(repos) ELSE 5)
        /\ \A i \in 1..Len(ShownTopRepos) : ShownTopRepos[i] \in Range(repos)
        /\ \A i, j \in 1..Len(ShownTopRepos) :
              i < j => RanksBefore(ShownTopRepos[i], ShownTopRepos[j])
        /\ \A r \in Range(repos) \ Range(ShownTopRepos) :
              \A i \in 1..Len(ShownTopRepos) : RanksBefore(ShownTopRepos[i], r)

\* Seven repositories with stars [0,2,1,2,0,1,1]: the two 2-star ones in
\* collection order, then the three 1-star ones in collection order.
C7_Witness ==
    /\ DisplayRan
    /\ Len(repos) = 7
    /\ [i \in 1..7 |-> repos[i].stargazers_count] = <<0, 2, 1, 2, 0, 1, 1>>
    /\ ShownTopRepos = << repos[2], repos[4], repos[3], repos[6], repos[7] >>

\* ------------------------------------------------------------------ C8

\* The stars of the repositories at the positions I.
RECURSIVE StarsAt(_)
StarsAt(I) ==
    IF I = {} THEN 0
    ELSE LET i == CHOOSE k \in I : TRUE
         IN  repos[i].stargazers_count + StarsAt(I \ {i})

\* C8: the lifetime total the report shows is the stars of the forks plus
\* the stars of the repositories that are no forks.
C8_TotalStarsIncludeForks ==
    DisplayRan =>
        Section("stars")[1].total_stars
          = StarsAt({ i \in 1..Len(repos) : repos[i].fork })
              + StarsAt({ i \in 1..Len(repos) : ~repos[i].fork })

\* A starred fork beside a starred repository whose languages were tallied:
\* the fork is in the total and not in the tally.
C8_Witness ==
    /\ pc = "done"
    /\ Len(repos) = 2
    /\ repos[1].fork /\ repos[1].stargazers_count = 1
    /\ ~repos[2].fork /\ repos[2].stargazers_count = 1
    /\ languages = << [lang |-> "Python", count |-> 1] >>
    /\ Len(Entries("languages")) = 1
    /\ Section("stars")[1].total_stars = 2

\* ----------------------------------------------------------------- C10

\* What was asked, without the answers.
Shape(t) == [i \in 1..Len(t) |-> << t[i].endpoint, t[i].arg >>]

\* The language requests of a whole run over rs: one request and one pause
\* for each repository that is no fork, in order.
RECURSIVE LanguageShape(_)
LanguageShape(rs) ==
    IF rs = <<>> THEN <<>>
    ELSE (IF Head(rs).fork THEN <<>>
          ELSE << <<"languages", Head(rs).name>>, <<"sleep", 0>> >>)
           \o LanguageShape(Tail(rs))

\* The requests of a whole run that listed its repositories in n pages.
RunShape(n) ==
    << <<"user", 0>> >>
      \o [i \in 1..n |-> <<"repos", i>>]
      \o << <<"commits", 0>>, <<"prs", 0>> >>
      \o LanguageShape(repos)

\* C10: when the report is printed, the requests issued are, in this order
\* and nothing else: the identity lookup, the listing's pages 1..k+1, one
\* commit search, one PR search, then for each repository that is no fork
\* one language request followed by one pause.
C10_SequentialTrace ==
    (DisplayRan \/ \E i \in 1..Len(console) : console[i].section # "error") =>
        Shape(trace) = RunShape(Len(Entries("repos")))

\* Two pages and the empty one, a fork (no request), a refused language
\* request (one request, one pause) and a successful one.
C10_Witness ==
    /\ pc = "done"
    /\ Len(Entries("repos")) = 3
    /\ Len(repos) = 3
    /\ ~repos[1].fork /\ repos[2].fork /\ ~repos[3].fork
    /\ LanguageEntryOf(repos[1].name).status = 403
    /\ LanguageEntryOf(repos[3].name).status = 200
    /\ Len(trace) = 10

====
